---- MODULE Spec2Model ----
(***************************************************************************)
(* A model of core::parallel::DistributedDualtreeTaskQueue                 *)
(* (distributed_dualtree_task_queue.h): the per-process registry of query  *)
(* subtrees, their lock bits and their task priority queues, with the      *)
(* subtree splitter that runs inside UnlockQuerySubtree.                   *)
(*                                                                         *)
(* std::vector / std::deque members are functions over 0 .. n-1, so that   *)
(* slot indices are the indices of the source.  A priority queue is kept   *)
(* as the sequence of its elements in insertion order.                     *)
(***************************************************************************)
EXTENDS Integers, Sequences, FiniteSets

VARIABLES
  local_query_subtrees_,           \* std::vector<TreeType *>
  local_query_subtree_locks_,      \* std::deque<bool>
  tasks_,                          \* std::vector<TaskPriorityQueueType>
  split_subtree_after_unlocking_,  \* bool
  table_exchange_,                 \* TableExchangeType *: "NULL" or "CACHE"
  num_remaining_tasks_,            \* int
  cache_refcount,                  \* the exchange layer's count per cache slot
  last_call,                       \* the call made last, with its arguments
  task_out,                        \* the pair the last call wrote, if any
  outstanding,                     \* per cache slot: tasks dequeued, not yet released
  pushes,                          \* PushTask calls made by the driver
  local_query_table                \* the TableType * the driver hands to Init

\* Number of PushTask calls the driver makes in one run.
MaxPush == 2

\* Number of dequeued tasks the workers hold unreleased at one time.
MaxOutstanding == 1

-----------------------------------------------------------------------------
(* The trees.  A node is its heap number: 1 is the root, 2n and 2n+1 are   *)
(* the children of n.                                                      *)

\* The local query tables of the driver.  Table 1 is a tree over the 6
\* points 0, 2, ..., 10 with leaves of 2 points: the root 1 has children 2
\* and 3, node 2 has children 4 and 5.  Table 2 is a tree over the 14 points
\* 0, 2, ..., 26: node 2 (8 points) has children 4 and 5 (4 points each,
\* leaves 8 .. 11 of 2 points), node 3 (6 points) has the leaves 6 and 7 of
\* 3 points.
QueryTables == {1, 2}

TableNodes == [t \in QueryTables |-> IF t = 1 THEN 1 .. 5 ELSE 1 .. 11]

TableBound ==
  [t \in QueryTables |->
     IF t = 1
     THEN [n \in 1 .. 5 |->
             CASE n = 1 -> <<0, 10>>
               [] n = 2 -> <<0, 6>>
               [] n = 3 -> <<8, 10>>
               [] n = 4 -> <<0, 2>>
               [] n = 5 -> <<4, 6>>]
     ELSE [n \in 1 .. 11 |->
             CASE n = 1 -> <<0, 26>>
               [] n = 2 -> <<0, 14>>
               [] n = 3 -> <<16, 26>>
               [] n = 4 -> <<0, 6>>
               [] n = 5 -> <<8, 14>>
               [] n = 6 -> <<16, 20>>
               [] n = 7 -> <<22, 26>>
               [] n = 8 -> <<0, 2>>
               [] n = 9 -> <<4, 6>>
               [] n = 10 -> <<8, 10>>
               [] n = 11 -> <<12, 14>>]]

TableCount ==
  [t \in QueryTables |->
     IF t = 1
     THEN [n \in 1 .. 5 |-> IF n = 1 THEN 6 ELSE IF n = 2 THEN 4 ELSE 2]
     ELSE [n \in 1 .. 11 |->
             CASE n = 1 -> 14
               [] n = 2 -> 8
               [] n = 3 -> 6
               [] n \in {4, 5} -> 4
               [] n \in {6, 7} -> 3
               [] n \in 8 .. 11 -> 2]]

\* The tree of the table in use.
QueryNodes == TableNodes[local_query_table]

QueryBound == TableBound[local_query_table]

QueryCount == TableCount[local_query_table]

\* Reference tables held by the exchange layer: table 1 is a tree of three
\* nodes (cache slot 1), table 2 a single leaf (cache slot 2).
CacheIds == {1, 2}

RefNodes == [t \in CacheIds |-> IF t = 1 THEN 1 .. 3 ELSE {1}]

RefBound ==
  [t \in CacheIds |->
     IF t = 1
     THEN [n \in 1 .. 3 |->
             CASE n = 1 -> <<20, 26>>
               [] n = 2 -> <<20, 22>>
               [] n = 3 -> <<24, 26>>]
     ELSE [n \in {1} |-> <<-16, -10>>]]

\* TreeType::is_leaf, left, right, count on either tree.
QueryIsLeaf(n) == 2 * n \notin QueryNodes

RefIsLeaf(t, n) == 2 * n \notin RefNodes[t]

Left(n) == 2 * n

Right(n) == 2 * n + 1

\* The (table, node, cache id) triples the driver can hand to PushTask.
ReferenceBindings ==
  { [table |-> 1, node |-> 1, cache_id |-> 1],
    [table |-> 2, node |-> 1, cache_id |-> 2] }

-----------------------------------------------------------------------------
(* Vectors indexed from 0.                                                 *)

Size(v) == Cardinality(DOMAIN v)

EmptyVec == << >>

PushBack(v, x) == [i \in 0 .. Size(v) |-> IF i < Size(v) THEN v[i] ELSE x]

-----------------------------------------------------------------------------
(* Range distance and priority.                                            *)

Max2(a, b) == IF a >= b THEN a ELSE b

\* bound().RangeDistanceSq(metric, other): the squared distance interval
\* between two one-dimensional intervals.
RangeDistanceSq(p, q) ==
  LET lo == Max2(0, Max2(q[1] - p[2], p[1] - q[2]))
      hi == Max2(q[2] - p[1], p[2] - q[1])
  IN  <<lo * lo, hi * hi>>

\* Range::mid (all coordinates are even, so the midpoint is an integer).
Mid(r) == (r[1] + r[2]) \div 2

-----------------------------------------------------------------------------
(* The task priority queue (TaskPriorityQueueType), kept as the sequence   *)
(* of its elements in insertion order.                                     *)

PQEmpty == << >>

PQSize(pq) == Len(pq)

PQPush(pq, t) == Append(pq, t)

\* A top() that yields the latest inserted among equals.
PQTopIndexLast(pq) ==
  CHOOSE i \in 1 .. Len(pq) :
    /\ \A j \in 1 .. Len(pq) : pq[j].priority <= pq[i].priority
    /\ \A j \in (i + 1) .. Len(pq) : pq[j].priority < pq[i].priority

\* Position of the element top() returns: greatest priority, the earliest
\* inserted among equals.
PQTopIndex(pq) ==
  CHOOSE i \in 1 .. Len(pq) :
    /\ \A j \in 1 .. Len(pq) : pq[j].priority <= pq[i].priority
    /\ \A j \in 1 .. (i - 1) : pq[j].priority < pq[i].priority

PQTop(pq) == pq[PQTopIndex(pq)]

PQPop(pq) ==
  LET k == PQTopIndex(pq)
  IN  SubSeq(pq, 1, k - 1) \o SubSeq(pq, k + 1, Len(pq))

-----------------------------------------------------------------------------
(* The queue object, as a record of its members, and its methods.          *)

Self ==
  [ local_query_subtrees_ |-> local_query_subtrees_,
    local_query_subtree_locks_ |-> local_query_subtree_locks_,
    tasks_ |-> tasks_,
    split_subtree_after_unlocking_ |-> split_subtree_after_unlocking_,
    table_exchange_ |-> table_exchange_,
    num_remaining_tasks_ |-> num_remaining_tasks_,
    cache_refcount |-> cache_refcount,
    lock_cache_calls |-> << >> ]

\* A task_out the callee has not written.
NoTask == << >>

\* TableExchange::LockCache(cache_id, n): n more references on the slot.
\* lock_cache_calls lists the calls made since the queue method was entered.
LockCache(q, cache_id, n) ==
  [q EXCEPT !.cache_refcount[cache_id] = @ + n,
            !.lock_cache_calls = Append(@, <<cache_id, n>>)]

\* The constructor.
DistributedDualtreeTaskQueue ==
  [ local_query_subtrees_ |-> EmptyVec,
    local_query_subtree_locks_ |-> EmptyVec,
    tasks_ |-> EmptyVec,
    split_subtree_after_unlocking_ |-> FALSE,
    table_exchange_ |-> "NULL",
    num_remaining_tasks_ |-> 0,
    cache_refcount |-> [c \in CacheIds |-> 0],
    lock_cache_calls |-> << >> ]

\* set_split_subtree_flag
set_split_subtree_flag(q) ==
  [q EXCEPT !.split_subtree_after_unlocking_ = TRUE]

is_empty(q) == q.num_remaining_tasks_ = 0

size(q) == Size(q.local_query_subtrees_)

\* PushTask turning a push to a held slot away.
PushTaskRefusesHeld(q, push_index, binding) ==
  LET query == q.local_query_subtrees_[push_index]
      squared_distance_range ==
        RangeDistanceSq(QueryBound[query], RefBound[binding.table][binding.node])
      new_task ==
        [ query_start_node |-> query,
          reference_table |-> binding.table,
          reference_start_node |-> binding.node,
          cache_id |-> binding.cache_id,
          priority |-> 0 - Mid(squared_distance_range) ]
  IN  IF q.local_query_subtree_locks_[push_index]
      THEN q
      ELSE [q EXCEPT !.tasks_[push_index] = PQPush(@, new_task),
                     !.num_remaining_tasks_ = @ + 1]

\* PushTask(metric_in, push_index, reference_table_node_pair)
PushTask(q, push_index, binding) ==
  LET query == q.local_query_subtrees_[push_index]
      squared_distance_range ==
        RangeDistanceSq(QueryBound[query], RefBound[binding.table][binding.node])
      new_task ==
        [ query_start_node |-> query,
          reference_table |-> binding.table,
          reference_start_node |-> binding.node,
          cache_id |-> binding.cache_id,
          priority |-> 0 - Mid(squared_distance_range) ]
  IN  [q EXCEPT !.tasks_[push_index] = PQPush(@, new_task),
                !.num_remaining_tasks_ = @ + 1]

\* DequeueTask without its num_remaining_tasks_--.
DequeueTaskNoDecrement(q, probe_index, out, lock_query_subtree_in) ==
  IF /\ PQSize(q.tasks_[probe_index]) > 0
     /\ ~ q.local_query_subtree_locks_[probe_index]
  THEN [ queue |->
           [q EXCEPT !.tasks_[probe_index] = PQPop(@),
                     !.local_query_subtree_locks_[probe_index] =
                        lock_query_subtree_in],
         task_out |-> <<PQTop(q.tasks_[probe_index]), probe_index>> ]
  ELSE [ queue |-> q, task_out |-> out ]

\* DequeueTask without its test of the lock bit.
DequeueTaskIgnoresLock(q, probe_index, out, lock_query_subtree_in) ==
  IF PQSize(q.tasks_[probe_index]) > 0
  THEN [ queue |->
           [q EXCEPT !.tasks_[probe_index] = PQPop(@),
                     !.local_query_subtree_locks_[probe_index] =
                        lock_query_subtree_in,
                     !.num_remaining_tasks_ = @ - 1],
         task_out |-> <<PQTop(q.tasks_[probe_index]), probe_index>> ]
  ELSE [ queue |-> q, task_out |-> out ]

\* DequeueTask copying top() after pop() instead of before (the popped
\* element when nothing is left to copy).
DequeueTaskCopiesAfterPop(q, probe_index, out, lock_query_subtree_in) ==
  IF /\ PQSize(q.tasks_[probe_index]) > 0
     /\ ~ q.local_query_subtree_locks_[probe_index]
  THEN LET popped == PQPop(q.tasks_[probe_index])
       IN  [ queue |->
               [q EXCEPT !.tasks_[probe_index] = popped,
                         !.local_query_subtree_locks_[probe_index] =
                            lock_query_subtree_in,
                         !.num_remaining_tasks_ = @ - 1],
             task_out |->
               << IF PQSize(popped) > 0
                  THEN PQTop(popped)
                  ELSE PQTop(q.tasks_[probe_index]),
                  probe_index >> ]
  ELSE [ queue |-> q, task_out |-> out ]

\* DequeueTask writing the lock bit outside its two tests.
DequeueTaskLocksAnyway(q, probe_index, out, lock_query_subtree_in) ==
  IF /\ PQSize(q.tasks_[probe_index]) > 0
     /\ ~ q.local_query_subtree_locks_[probe_index]
  THEN [ queue |->
           [q EXCEPT !.tasks_[probe_index] = PQPop(@),
                     !.local_query_subtree_locks_[probe_index] =
                        lock_query_subtree_in,
                     !.num_remaining_tasks_ = @ - 1],
         task_out |-> <<PQTop(q.tasks_[probe_index]), probe_index>> ]
  ELSE [ queue |->
           [q EXCEPT !.local_query_subtree_locks_[probe_index] =
                        lock_query_subtree_in],
         task_out |-> out ]

\* DequeueTask without its write of the lock bit.
DequeueTaskKeepsLockBit(q, probe_index, out, lock_query_subtree_in) ==
  IF /\ PQSize(q.tasks_[probe_index]) > 0
     /\ ~ q.local_query_subtree_locks_[probe_index]
  THEN [ queue |->
           [q EXCEPT !.tasks_[probe_index] = PQPop(@),
                     !.num_remaining_tasks_ = @ - 1],
         task_out |-> <<PQTop(q.tasks_[probe_index]), probe_index>> ]
  ELSE [ queue |-> q, task_out |-> out ]

\* DequeueTask(probe_index, task_out, lock_query_subtree_in): the queue
\* after the call, and the caller's pair.
DequeueTask(q, probe_index, out, lock_query_subtree_in) ==
  IF /\ PQSize(q.tasks_[probe_index]) > 0
     /\ ~ q.local_query_subtree_locks_[probe_index]
  THEN [ queue |->
           [q EXCEPT !.tasks_[probe_index] = PQPop(@),
                     !.local_query_subtree_locks_[probe_index] =
                        lock_query_subtree_in,
                     !.num_remaining_tasks_ = @ - 1],
         task_out |-> <<PQTop(q.tasks_[probe_index]), probe_index>> ]
  ELSE [ queue |-> q, task_out |-> out ]

\* The first loop of split_subtree_: DequeueTask until the slot is empty,
\* collecting what was written into prev_tasks.
RECURSIVE DrainTasks(_, _, _)
DrainTasks(q, subtree_index, prev_tasks) ==
  IF PQSize(q.tasks_[subtree_index]) > 0
  THEN LET r == DequeueTask(q, subtree_index, NoTask, FALSE)
       IN  DrainTasks(r.queue, subtree_index, Append(prev_tasks, r.task_out[1]))
  ELSE [ queue |-> q, prev_tasks |-> prev_tasks ]

\* DuplicateTask locking the cache once in either case.
DuplicateTaskLocksOnce(q, subtree_index, prev) ==
  LET new_index == Size(q.local_query_subtrees_) - 1
      children == IF RefIsLeaf(prev.reference_table, prev.reference_start_node)
                  THEN <<prev.reference_start_node>>
                  ELSE <<Left(prev.reference_start_node),
                         Right(prev.reference_start_node)>>
      pair(n) == [ table |-> prev.reference_table, node |-> n,
                   cache_id |-> prev.cache_id ]
      q1 == PushTask(q, subtree_index, pair(children[1]))
      q2 == IF Len(children) = 2
            THEN PushTask(q1, subtree_index, pair(children[2]))
            ELSE q1
      q3 == PushTask(q2, new_index, pair(children[1]))
      q4 == IF Len(children) = 2
            THEN PushTask(q3, new_index, pair(children[2]))
            ELSE q3
  IN  LockCache(q4, prev.cache_id, 1)

\* DuplicateTask pushing the left reference child where the right one
\* belongs.
DuplicateTaskLeftTwice(q, subtree_index, prev) ==
  LET new_index == Size(q.local_query_subtrees_) - 1
  IN  IF RefIsLeaf(prev.reference_table, prev.reference_start_node)
      THEN LET reference_table_node_pair ==
                 [ table |-> prev.reference_table,
                   node |-> prev.reference_start_node,
                   cache_id |-> prev.cache_id ]
               q1 == PushTask(q, subtree_index, reference_table_node_pair)
               q2 == PushTask(q1, new_index, reference_table_node_pair)
           IN  LockCache(q2, prev.cache_id, 1)
      ELSE LET reference_table_left_node_pair ==
                 [ table |-> prev.reference_table,
                   node |-> Left(prev.reference_start_node),
                   cache_id |-> prev.cache_id ]
               q1 == PushTask(q, subtree_index, reference_table_left_node_pair)
               q2 == PushTask(q1, subtree_index, reference_table_left_node_pair)
               q3 == PushTask(q2, new_index, reference_table_left_node_pair)
               q4 == PushTask(q3, new_index, reference_table_left_node_pair)
           IN  LockCache(q4, prev.cache_id, 3)

\* DuplicateTask locking the cache once per task it pushes.
DuplicateTaskLocksPerPush(q, subtree_index, prev) ==
  LET new_index == Size(q.local_query_subtrees_) - 1
  IN  IF RefIsLeaf(prev.reference_table, prev.reference_start_node)
      THEN LET reference_table_node_pair ==
                 [ table |-> prev.reference_table,
                   node |-> prev.reference_start_node,
                   cache_id |-> prev.cache_id ]
               q1 == PushTask(q, subtree_index, reference_table_node_pair)
               q2 == PushTask(q1, new_index, reference_table_node_pair)
           IN  LockCache(q2, prev.cache_id, 2)
      ELSE LET reference_table_left_node_pair ==
                 [ table |-> prev.reference_table,
                   node |-> Left(prev.reference_start_node),
                   cache_id |-> prev.cache_id ]
               reference_table_right_node_pair ==
                 [ table |-> prev.reference_table,
                   node |-> Right(prev.reference_start_node),
                   cache_id |-> prev.cache_id ]
               q1 == PushTask(q, subtree_index, reference_table_left_node_pair)
               q2 == PushTask(q1, subtree_index, reference_table_right_node_pair)
               q3 == PushTask(q2, new_index, reference_table_left_node_pair)
               q4 == PushTask(q3, new_index, reference_table_right_node_pair)
           IN  LockCache(q4, prev.cache_id, 4)

\* DuplicateTask pairing, for an internal reference node, the left query
\* child with the left reference child and the right with the right only.
DuplicateTaskCrossesChildren(q, subtree_index, prev) ==
  LET new_index == Size(q.local_query_subtrees_) - 1
  IN  IF RefIsLeaf(prev.reference_table, prev.reference_start_node)
      THEN LET reference_table_node_pair ==
                 [ table |-> prev.reference_table,
                   node |-> prev.reference_start_node,
                   cache_id |-> prev.cache_id ]
               q1 == PushTask(q, subtree_index, reference_table_node_pair)
               q2 == PushTask(q1, new_index, reference_table_node_pair)
           IN  LockCache(q2, prev.cache_id, 1)
      ELSE LET reference_table_left_node_pair ==
                 [ table |-> prev.reference_table,
                   node |-> Left(prev.reference_start_node),
                   cache_id |-> prev.cache_id ]
               reference_table_right_node_pair ==
                 [ table |-> prev.reference_table,
                   node |-> Right(prev.reference_start_node),
                   cache_id |-> prev.cache_id ]
               q1 == PushTask(q, subtree_index, reference_table_left_node_pair)
               q2 == PushTask(q1, new_index, reference_table_right_node_pair)
           IN  LockCache(q2, prev.cache_id, 1)

\* One pass of the second loop of split_subtree_, for prev_tasks[i].
DuplicateTask(q, subtree_index, prev) ==
  LET new_index == Size(q.local_query_subtrees_) - 1
  IN  IF RefIsLeaf(prev.reference_table, prev.reference_start_node)
      THEN LET reference_table_node_pair ==
                 [ table |-> prev.reference_table,
                   node |-> prev.reference_start_node,
                   cache_id |-> prev.cache_id ]
               q1 == PushTask(q, subtree_index, reference_table_node_pair)
               q2 == PushTask(q1, new_index, reference_table_node_pair)
           IN  LockCache(q2, prev.cache_id, 1)
      ELSE LET reference_table_left_node_pair ==
                 [ table |-> prev.reference_table,
                   node |-> Left(prev.reference_start_node),
                   cache_id |-> prev.cache_id ]
               reference_table_right_node_pair ==
                 [ table |-> prev.reference_table,
                   node |-> Right(prev.reference_start_node),
                   cache_id |-> prev.cache_id ]
               q1 == PushTask(q, subtree_index, reference_table_left_node_pair)
               q2 == PushTask(q1, subtree_index, reference_table_right_node_pair)
               q3 == PushTask(q2, new_index, reference_table_left_node_pair)
               q4 == PushTask(q3, new_index, reference_table_right_node_pair)
           IN  LockCache(q4, prev.cache_id, 3)

RECURSIVE DuplicateTasks(_, _, _, _)
DuplicateTasks(q, subtree_index, prev_tasks, i) ==
  IF i <= Len(prev_tasks)
  THEN DuplicateTasks(DuplicateTask(q, subtree_index, prev_tasks[i]),
                      subtree_index, prev_tasks, i + 1)
  ELSE q

\* split_subtree_ keeping the right child in place and appending the left.
SplitSubtreeSwapped(q, subtree_index) ==
  LET left == Left(q.local_query_subtrees_[subtree_index])
      right == Right(q.local_query_subtrees_[subtree_index])
      grown ==
        [q EXCEPT !.local_query_subtrees_ =
                     PushBack([@ EXCEPT ![subtree_index] = right], left),
                  !.local_query_subtree_locks_ = PushBack(@, FALSE)]
      drained == DrainTasks(grown, subtree_index, << >>)
      resized == [drained.queue EXCEPT !.tasks_ = PushBack(@, PQEmpty)]
  IN  DuplicateTasks(resized, subtree_index, drained.prev_tasks, 1)

\* split_subtree_ resizing tasks_ from the registry size after its push_back.
SplitSubtreeResizesPastEnd(q, subtree_index) ==
  LET left == Left(q.local_query_subtrees_[subtree_index])
      right == Right(q.local_query_subtrees_[subtree_index])
      grown ==
        [q EXCEPT !.local_query_subtrees_ =
                     PushBack([@ EXCEPT ![subtree_index] = left], right),
                  !.local_query_subtree_locks_ = PushBack(@, FALSE)]
      drained == DrainTasks(grown, subtree_index, << >>)
      resized == [drained.queue EXCEPT
                    !.tasks_ = PushBack(PushBack(@, PQEmpty), PQEmpty)]
  IN  DuplicateTasks(resized, subtree_index, drained.prev_tasks, 1)

\* split_subtree_ putting the left child into the slot only after the
\* tasks have been pushed back.
SplitSubtreeRebindsLate(q, subtree_index) ==
  LET left == Left(q.local_query_subtrees_[subtree_index])
      right == Right(q.local_query_subtrees_[subtree_index])
      grown ==
        [q EXCEPT !.local_query_subtrees_ = PushBack(@, right),
                  !.local_query_subtree_locks_ = PushBack(@, FALSE)]
      drained == DrainTasks(grown, subtree_index, << >>)
      resized == [drained.queue EXCEPT !.tasks_ = PushBack(@, PQEmpty)]
      pushed == DuplicateTasks(resized, subtree_index, drained.prev_tasks, 1)
  IN  [pushed EXCEPT !.local_query_subtrees_[subtree_index] = left]

\* split_subtree_(metric_in, subtree_index)
split_subtree_(q, subtree_index) ==
  LET left == Left(q.local_query_subtrees_[subtree_index])
      right == Right(q.local_query_subtrees_[subtree_index])
      grown ==
        [q EXCEPT !.local_query_subtrees_ =
                     PushBack([@ EXCEPT ![subtree_index] = left], right),
                  !.local_query_subtree_locks_ = PushBack(@, FALSE)]
      drained == DrainTasks(grown, subtree_index, << >>)
      resized == [drained.queue EXCEPT !.tasks_ = PushBack(@, PQEmpty)]
  IN  DuplicateTasks(resized, subtree_index, drained.prev_tasks, 1)

\* The scan without its test of tasks_[i].size().
RECURSIVE FindSplitIndexIgnoresTasks(_, _, _, _)
FindSplitIndexIgnoresTasks(q, i, split_index_query_size, split_index) ==
  IF i < Size(q.local_query_subtrees_)
  THEN IF /\ ~ q.local_query_subtree_locks_[i]
          /\ ~ QueryIsLeaf(q.local_query_subtrees_[i])
          /\ split_index_query_size < QueryCount[q.local_query_subtrees_[i]]
       THEN FindSplitIndexIgnoresTasks(q, i + 1,
                                       QueryCount[q.local_query_subtrees_[i]], i)
       ELSE FindSplitIndexIgnoresTasks(q, i + 1, split_index_query_size,
                                       split_index)
  ELSE split_index

\* The scan comparing the counts with <= instead of <.
RECURSIVE FindSplitIndexTakesLast(_, _, _, _)
FindSplitIndexTakesLast(q, i, split_index_query_size, split_index) ==
  IF i < Size(q.local_query_subtrees_)
  THEN IF /\ ~ q.local_query_subtree_locks_[i]
          /\ ~ QueryIsLeaf(q.local_query_subtrees_[i])
          /\ PQSize(q.tasks_[i]) > 0
          /\ split_index_query_size <= QueryCount[q.local_query_subtrees_[i]]
       THEN FindSplitIndexTakesLast(q, i + 1,
                                    QueryCount[q.local_query_subtrees_[i]], i)
       ELSE FindSplitIndexTakesLast(q, i + 1, split_index_query_size,
                                    split_index)
  ELSE split_index

\* The scan of UnlockQuerySubtree from slot i on: the split_index it ends with.
RECURSIVE FindSplitIndex(_, _, _, _)
FindSplitIndex(q, i, split_index_query_size, split_index) ==
  IF i < Size(q.local_query_subtrees_)
  THEN IF /\ ~ q.local_query_subtree_locks_[i]
          /\ ~ QueryIsLeaf(q.local_query_subtrees_[i])
          /\ PQSize(q.tasks_[i]) > 0
          /\ split_index_query_size < QueryCount[q.local_query_subtrees_[i]]
       THEN FindSplitIndex(q, i + 1, QueryCount[q.local_query_subtrees_[i]], i)
       ELSE FindSplitIndex(q, i + 1, split_index_query_size, split_index)
  ELSE split_index

\* The split_index UnlockQuerySubtree(subtree_index) ends its scan with
\* (-1 also when no split was requested and nothing is scanned).
ScanResult(q, subtree_index) ==
  LET unlocked == [q EXCEPT !.local_query_subtree_locks_[subtree_index] = FALSE]
  IN  IF unlocked.split_subtree_after_unlocking_
      THEN FindSplitIndex(unlocked, 0, 0, 0 - 1)
      ELSE 0 - 1

\* UnlockQuerySubtree clearing the flag only after a split.
UnlockClearsOnlyOnSplit(q, subtree_index) ==
  LET unlocked == [q EXCEPT !.local_query_subtree_locks_[subtree_index] = FALSE]
  IN  IF unlocked.split_subtree_after_unlocking_
      THEN LET split_index == ScanResult(q, subtree_index)
           IN  IF split_index >= 0
               THEN [split_subtree_(unlocked, split_index)
                       EXCEPT !.split_subtree_after_unlocking_ = FALSE]
               ELSE unlocked
      ELSE unlocked

\* UnlockQuerySubtree scanning and splitting without testing the flag.
UnlockAlwaysScans(q, subtree_index) ==
  LET unlocked == [q EXCEPT !.local_query_subtree_locks_[subtree_index] = FALSE]
      split_index == FindSplitIndex(unlocked, 0, 0, 0 - 1)
      split == IF split_index >= 0
               THEN split_subtree_(unlocked, split_index)
               ELSE unlocked
  IN  [split EXCEPT !.split_subtree_after_unlocking_ = FALSE]

\* UnlockQuerySubtree clearing the lock bit only when no split was requested.
UnlockFreesOnlyWithoutRequest(q, subtree_index) ==
  IF q.split_subtree_after_unlocking_
  THEN LET split_index == FindSplitIndex(q, 0, 0, 0 - 1)
           split == IF split_index >= 0
                    THEN split_subtree_(q, split_index)
                    ELSE q
       IN  [split EXCEPT !.split_subtree_after_unlocking_ = FALSE]
  ELSE [q EXCEPT !.local_query_subtree_locks_[subtree_index] = FALSE]

\* UnlockQuerySubtree(metric_in, subtree_index)
UnlockQuerySubtree(q, subtree_index) ==
  LET unlocked == [q EXCEPT !.local_query_subtree_locks_[subtree_index] = FALSE]
  IN  IF unlocked.split_subtree_after_unlocking_
      THEN LET split_index == ScanResult(q, subtree_index)
               split == IF split_index >= 0
                        THEN split_subtree_(unlocked, split_index)
                        ELSE unlocked
           IN  [split EXCEPT !.split_subtree_after_unlocking_ = FALSE]
      ELSE unlocked

\* TableType::get_frontier_nodes(max_size, &v): the subtrees of at most
\* max_size points (or leaves) below node, left to right, appended to v.
RECURSIVE GetFrontierNodes(_, _, _)
GetFrontierNodes(node, max_size, v) ==
  IF QueryIsLeaf(node) \/ QueryCount[node] <= max_size
  THEN PushBack(v, node)
  ELSE GetFrontierNodes(Right(node), max_size,
                        GetFrontierNodes(Left(node), max_size, v))

\* std::vector::resize(n): keeps what is there, fills with the default.
Resize(v, n, default) ==
  [i \in 0 .. (n - 1) |-> IF i < Size(v) THEN v[i] ELSE default]

\* Init without its write of split_subtree_after_unlocking_.
InitQueueKeepsFlag(q, max_query_subtree_size) ==
  LET subtrees == GetFrontierNodes(1, max_query_subtree_size,
                                   q.local_query_subtrees_)
      n == Size(subtrees)
  IN  [q EXCEPT !.local_query_subtrees_ = subtrees,
                !.local_query_subtree_locks_ = [i \in 0 .. (n - 1) |-> FALSE],
                !.tasks_ = Resize(@, n, PQEmpty),
                !.table_exchange_ = "CACHE"]

\* Init(local_query_table, max_query_subtree_size, table_exchange_in)
InitQueue(q, max_query_subtree_size) ==
  LET subtrees == GetFrontierNodes(1, max_query_subtree_size,
                                   q.local_query_subtrees_)
      n == Size(subtrees)
  IN  [q EXCEPT !.local_query_subtrees_ = subtrees,
                !.local_query_subtree_locks_ = [i \in 0 .. (n - 1) |-> FALSE],
                !.tasks_ = Resize(@, n, PQEmpty),
                !.split_subtree_after_unlocking_ = FALSE,
                !.table_exchange_ = "CACHE"]

-----------------------------------------------------------------------------
(* The driver and the workers around the queue: one action per call.       *)

vars ==
  << local_query_subtrees_, local_query_subtree_locks_, tasks_,
     split_subtree_after_unlocking_, table_exchange_, num_remaining_tasks_,
     cache_refcount, last_call, task_out, outstanding, pushes,
     local_query_table >>

\* The size caps Init is called with.
MaxQuerySubtreeSizes == {2, 4, 6}

Slots == DOMAIN local_query_subtrees_

RECURSIVE SumOver(_, _)
SumOver(f, S) ==
  IF S = {} THEN 0
  ELSE LET x == CHOOSE y \in S : TRUE IN f[x] + SumOver(f, S \ {x})

OutstandingTotal == SumOver(outstanding, CacheIds)

\* The record of a call: the method, its slot and lock arguments (-1 and
\* FALSE when it has none), the split flag it found on entry, for
\* UnlockQuerySubtree the slot its scan chose to split (-1: none), and the
\* LockCache calls the method made.
Call(op, index, lock, split_index) ==
  [ op |-> op, index |-> index, lock |-> lock,
    requested |-> split_subtree_after_unlocking_,
    split_index |-> split_index,
    lock_cache_calls |-> << >> ]

\* The record call of a method that returned the queue q.
Returned(call, q) == [call EXCEPT !.lock_cache_calls = q.lock_cache_calls]

\* The members become those of q.
Becomes(q) ==
  /\ local_query_subtrees_' = q.local_query_subtrees_
  /\ local_query_subtree_locks_' = q.local_query_subtree_locks_
  /\ tasks_' = q.tasks_
  /\ split_subtree_after_unlocking_' = q.split_subtree_after_unlocking_
  /\ table_exchange_' = q.table_exchange_
  /\ num_remaining_tasks_' = q.num_remaining_tasks_
  /\ cache_refcount' = q.cache_refcount
  /\ UNCHANGED local_query_table

Init ==
  /\ local_query_subtrees_ = DistributedDualtreeTaskQueue.local_query_subtrees_
  /\ local_query_subtree_locks_ =
       DistributedDualtreeTaskQueue.local_query_subtree_locks_
  /\ tasks_ = DistributedDualtreeTaskQueue.tasks_
  /\ split_subtree_after_unlocking_ =
       DistributedDualtreeTaskQueue.split_subtree_after_unlocking_
  /\ table_exchange_ = DistributedDualtreeTaskQueue.table_exchange_
  /\ num_remaining_tasks_ = DistributedDualtreeTaskQueue.num_remaining_tasks_
  /\ cache_refcount = DistributedDualtreeTaskQueue.cache_refcount
  /\ last_call = [ op |-> "DistributedDualtreeTaskQueue", index |-> 0 - 1,
                    lock |-> FALSE, requested |-> FALSE, split_index |-> 0 - 1,
                    lock_cache_calls |-> << >> ]
  /\ task_out = NoTask
  /\ outstanding = [c \in CacheIds |-> 0]
  /\ pushes = 0
  /\ local_query_table = 1

\* The driver calls Init on the constructed queue.
CallInit(max_query_subtree_size) ==
  /\ table_exchange_ = "NULL"
  /\ Becomes(InitQueue(Self, max_query_subtree_size))
  /\ last_call' = Returned(Call("Init", 0 - 1, FALSE, 0 - 1),
                          InitQueue(Self, max_query_subtree_size))
  /\ task_out' = NoTask
  /\ UNCHANGED << outstanding, pushes >>

\* The driver takes a reference on the binding's cache slot and pushes it.
CallPushTask(push_index, binding) ==
  /\ table_exchange_ # "NULL"
  /\ pushes < MaxPush
  /\ Becomes(PushTask(LockCache(Self, binding.cache_id, 1), push_index, binding))
  /\ last_call' = Returned(Call("PushTask", push_index, FALSE, 0 - 1),
                          PushTask(Self, push_index, binding))
  /\ pushes' = pushes + 1
  /\ task_out' = NoTask
  /\ UNCHANGED outstanding

\* A worker probes a slot, passing a fresh pair.
CallDequeueTask(probe_index, lock_query_subtree_in) ==
  /\ table_exchange_ # "NULL"
  /\ OutstandingTotal < MaxOutstanding
  /\ LET r == DequeueTask(Self, probe_index, NoTask, lock_query_subtree_in)
     IN  /\ Becomes(r.queue)
         /\ task_out' = r.task_out
         /\ outstanding' = IF r.task_out = NoTask
                           THEN outstanding
                           ELSE [outstanding EXCEPT ![r.task_out[1].cache_id] = @ + 1]
  /\ last_call' =
       Returned(Call("DequeueTask", probe_index, lock_query_subtree_in, 0 - 1),
                DequeueTask(Self, probe_index, NoTask, lock_query_subtree_in).queue)
  /\ UNCHANGED pushes

\* A worker hands a slot back.
CallUnlockQuerySubtree(subtree_index) ==
  /\ table_exchange_ # "NULL"
  /\ Becomes(UnlockQuerySubtree(Self, subtree_index))
  /\ last_call' = Returned(Call("UnlockQuerySubtree", subtree_index, FALSE,
                               ScanResult(Self, subtree_index)),
                          UnlockQuerySubtree(Self, subtree_index))
  /\ task_out' = NoTask
  /\ UNCHANGED << outstanding, pushes >>

\* A worker asks for a split (the method has no precondition: it can be
\* called on the constructed queue too).
CallSetSplitSubtreeFlag ==
  /\ Becomes(set_split_subtree_flag(Self))
  /\ last_call' = Returned(Call("set_split_subtree_flag", 0 - 1, FALSE, 0 - 1),
                          set_split_subtree_flag(Self))
  /\ task_out' = NoTask
  /\ UNCHANGED << outstanding, pushes >>

\* A worker has finished a dequeued task and releases its cache reference.
ReleaseCache(cache_id) ==
  /\ outstanding[cache_id] > 0
  /\ cache_refcount' = [cache_refcount EXCEPT ![cache_id] = @ - 1]
  /\ outstanding' = [outstanding EXCEPT ![cache_id] = @ - 1]
  /\ last_call' = Call("ReleaseCache", 0 - 1, FALSE, 0 - 1)
  /\ task_out' = NoTask
  /\ UNCHANGED << local_query_subtrees_, local_query_subtree_locks_, tasks_,
                  split_subtree_after_unlocking_, table_exchange_,
                  num_remaining_tasks_, pushes, local_query_table >>

Next ==
  \/ \E m \in MaxQuerySubtreeSizes : CallInit(m)
  \/ \E i \in Slots, b \in ReferenceBindings : CallPushTask(i, b)
  \/ \E i \in Slots, l \in BOOLEAN : CallDequeueTask(i, l)
  \/ \E i \in Slots : CallUnlockQuerySubtree(i)
  \/ CallSetSplitSubtreeFlag
  \/ \E c \in CacheIds : ReleaseCache(c)

Spec == Init /\ [][Next]_vars

\* The workers of the dual-tree driver: each keeps taking a task from a free
\* slot that has tasks pending, hands back the slot it holds, and releases
\* the cache reference of the task it has finished.
WorkerDequeues ==
  \E i \in Slots, l \in BOOLEAN :
    /\ PQSize(tasks_[i]) > 0
    /\ ~ local_query_subtree_locks_[i]
    /\ CallDequeueTask(i, l)

WorkerUnlocks ==
  \E i \in Slots :
    /\ local_query_subtree_locks_[i]
    /\ CallUnlockQuerySubtree(i)

WorkerReleases == \E c \in CacheIds : ReleaseCache(c)

\* Some slot is held: the condition under which WorkerUnlocks can take a
\* step (handing back a held slot always changes its lock bit).
SlotHeld == \E i \in Slots : local_query_subtree_locks_[i]

\* The same calls, with workers that do not stop while there is work: weak
\* fairness of the three worker steps.  That of WorkerUnlocks is written
\* out, WF_vars(A) being []<>~ENABLED <<A>>_vars \/ []<><<A>>_vars, with
\* SlotHeld for ENABLED <<WorkerUnlocks>>_vars.
LiveSpec ==
  /\ Init
  /\ [][Next]_vars
  /\ WF_vars(WorkerDequeues)
  /\ WF_vars(WorkerReleases)
  /\ ([]<>(~ SlotHeld) \/ []<><<WorkerUnlocks>>_vars)

-----------------------------------------------------------------------------
(* Calls outside the methods' preconditions.  No method tests its index   *)
(* (operator[] on the vector and the deque) nor whether Init has run, so   *)
(* such a call is undefined behaviour: the process may die on the stray    *)
(* access, or the access may land outside the arrays and the method run    *)
(* on.  The run ends with the call.                                        *)

\* The slot indices just outside the registry.
OutOfRange == {0 - 1, Size(local_query_subtrees_)}

\* The last call was outside its precondition, or killed the process.
Erred ==
  \/ last_call.op = "abort"
  \/ /\ last_call.op \in {"PushTask", "DequeueTask", "UnlockQuerySubtree"}
     /\ last_call.index \notin Slots

\* The process dies inside a call with index i.
Abort(i) ==
  /\ last_call' = Call("abort", i, FALSE, 0 - 1)
  /\ task_out' = NoTask
  /\ UNCHANGED << local_query_subtrees_, local_query_subtree_locks_, tasks_,
                  split_subtree_after_unlocking_, table_exchange_,
                  num_remaining_tasks_, cache_refcount, outstanding, pushes,
                  local_query_table >>

\* PushTask(push_index, binding) with push_index out of range (any index
\* is, before Init): the reads of local_query_subtrees_[push_index] and the
\* push into tasks_[push_index] go outside the arrays; if the process
\* survives them, num_remaining_tasks_++ runs.
CallPushTaskOutOfRange(push_index, binding) ==
  /\ pushes < MaxPush
  /\ \/ Abort(push_index)
     \/ /\ Becomes([LockCache(Self, binding.cache_id, 1)
                     EXCEPT !.num_remaining_tasks_ = @ + 1])
        /\ last_call' = Call("PushTask", push_index, FALSE, 0 - 1)
        /\ pushes' = pushes + 1
        /\ task_out' = NoTask
        /\ UNCHANGED outstanding

\* DequeueTask(probe_index, ...) with probe_index out of range: the size and
\* the lock bit it tests are whatever lies there.  Either a test fails and
\* nothing is written, or both pass and it pops, writes the stray lock bit
\* and runs num_remaining_tasks_--.
CallDequeueTaskOutOfRange(probe_index, lock_query_subtree_in) ==
  \/ Abort(probe_index)
  \/ /\ \E passes \in BOOLEAN :
          Becomes(IF passes
                  THEN [Self EXCEPT !.num_remaining_tasks_ = @ - 1]
                  ELSE Self)
     /\ last_call' =
          Call("DequeueTask", probe_index, lock_query_subtree_in, 0 - 1)
     /\ task_out' = NoTask
     /\ UNCHANGED << outstanding, pushes >>

\* UnlockQuerySubtree(subtree_index) with subtree_index out of range: the
\* lock bit it clears lies outside the deque; if the process survives the
\* write, the rest of the method runs on the registry as it is.
CallUnlockQuerySubtreeOutOfRange(subtree_index) ==
  \/ Abort(subtree_index)
  \/ /\ LET split_index ==
              IF split_subtree_after_unlocking_
              THEN FindSplitIndex(Self, 0, 0, 0 - 1)
              ELSE 0 - 1
            split == IF split_index >= 0
                     THEN split_subtree_(Self, split_index)
                     ELSE Self
        IN  /\ Becomes([split EXCEPT !.split_subtree_after_unlocking_ = FALSE])
            /\ last_call' =
                 Returned(Call("UnlockQuerySubtree", subtree_index, FALSE,
                               split_index),
                          split)
     /\ task_out' = NoTask
     /\ UNCHANGED << outstanding, pushes >>

UsageNext ==
  \/ \E m \in MaxQuerySubtreeSizes : ~ Erred /\ CallInit(m)
  \/ \E i \in Slots, b \in ReferenceBindings : ~ Erred /\ CallPushTask(i, b)
  \/ \E i \in Slots, l \in BOOLEAN : ~ Erred /\ CallDequeueTask(i, l)
  \/ \E i \in Slots : ~ Erred /\ CallUnlockQuerySubtree(i)
  \/ ~ Erred /\ CallSetSplitSubtreeFlag
  \/ \E c \in CacheIds : ~ Erred /\ ReleaseCache(c)
  \/ \E i \in OutOfRange, b \in ReferenceBindings :
       ~ Erred /\ CallPushTaskOutOfRange(i, b)
  \/ \E i \in OutOfRange, l \in BOOLEAN :
       ~ Erred /\ CallDequeueTaskOutOfRange(i, l)
  \/ \E i \in OutOfRange : ~ Erred /\ CallUnlockQuerySubtreeOutOfRange(i)

\* The queue with callers that may break the preconditions.
UsageSpec == Init /\ [][UsageNext]_vars

-----------------------------------------------------------------------------
(* The scan of UnlockQuerySubtree on its own: a function of the registry,  *)
(* the lock bits and the queues.  The states it is applied to are drawn:   *)
(* either query table after Init with any size cap, any set of slots held  *)
(* by workers, and one task of a binding pushed to any set of slots.       *)

\* PushTask of binding b to every slot of S from slot i on, in index order,
\* the driver taking its cache reference before each.
RECURSIVE PushAll(_, _, _, _)
PushAll(q, i, S, b) ==
  IF i < Size(q.local_query_subtrees_)
  THEN PushAll(IF i \in S
               THEN PushTask(LockCache(q, b.cache_id, 1), i, b)
               ELSE q,
               i + 1, S, b)
  ELSE q

ScanInit ==
  \E t \in QueryTables, m \in MaxQuerySubtreeSizes, b \in ReferenceBindings :
    /\ local_query_table = t
    /\ \E initial \in {InitQueue(DistributedDualtreeTaskQueue, m)} :
         \E held \in SUBSET DOMAIN initial.local_query_subtrees_,
            loaded \in SUBSET DOMAIN initial.local_query_subtrees_ :
           \E q \in {PushAll([initial EXCEPT
                                !.local_query_subtree_locks_ =
                                   [i \in DOMAIN @ |-> i \in held]],
                             0, loaded, b)} :
             /\ local_query_subtrees_ = q.local_query_subtrees_
             /\ local_query_subtree_locks_ = q.local_query_subtree_locks_
             /\ tasks_ = q.tasks_
             /\ split_subtree_after_unlocking_ =
                  q.split_subtree_after_unlocking_
             /\ table_exchange_ = q.table_exchange_
             /\ num_remaining_tasks_ = q.num_remaining_tasks_
             /\ cache_refcount = q.cache_refcount
             /\ pushes = Cardinality(loaded)
    /\ last_call = [ op |-> "drawn", index |-> 0 - 1, lock |-> FALSE,
                      requested |-> FALSE, split_index |-> 0 - 1,
                      lock_cache_calls |-> << >> ]
    /\ task_out = NoTask
    /\ outstanding = [c \in CacheIds |-> 0]

ScanNext ==
  \/ CallSetSplitSubtreeFlag
  \/ \E i \in Slots : CallUnlockQuerySubtree(i)

ScanSpec == ScanInit /\ [][ScanNext]_vars

-----------------------------------------------------------------------------
(* Vocabulary of the properties.                                           *)

Initialized == table_exchange_ # "NULL"

\* The members of the queue object proper (not the exchange layer's counts).
members ==
  << local_query_subtrees_, local_query_subtree_locks_, tasks_,
     split_subtree_after_unlocking_, table_exchange_, num_remaining_tasks_ >>

\* Number of tasks pending over all slots.
TotalPending ==
  SumOver([i \in DOMAIN tasks_ |-> Len(tasks_[i])], DOMAIN tasks_)

\* Number of pending tasks that refer to cache slot c.
PendingOn(c) ==
  SumOver([i \in DOMAIN tasks_ |->
             Cardinality({j \in 1 .. Len(tasks_[i]) : tasks_[i][j].cache_id = c})],
          DOMAIN tasks_)

IsPrefix(s, t) == Len(s) <= Len(t) /\ SubSeq(t, 1, Len(s)) = s

\* s without its k-th element.
Without(s, k) == SubSeq(s, 1, k - 1) \o SubSeq(s, k + 1, Len(s))

\* The step is a call of op.
Calls(op) == last_call'.op = op

\* The step is a DequeueTask(i, ...) that wrote a task.
Dequeues(i) ==
  Calls("DequeueTask") /\ last_call'.index = i /\ task_out' # NoTask

\* The state follows a DequeueTask that wrote a task.
Dequeued == last_call.op = "DequeueTask" /\ task_out # NoTask

\* The state follows an UnlockQuerySubtree that split a slot.
SplitDone == last_call.op = "UnlockQuerySubtree" /\ last_call.split_index >= 0

-----------------------------------------------------------------------------
\* C1: in every reachable state num_remaining_tasks_ equals the number of
\* tasks pending over all slots, splits included.
C1_CounterAgreement == num_remaining_tasks_ = TotalPending

\* A split has just redistributed pending tasks.
C1_Witness == SplitDone /\ num_remaining_tasks_ >= 4

\* C2: while a slot is held, only UnlockQuerySubtree of that slot frees it;
\* until then no DequeueTask of the slot writes a task, its subtree is not
\* replaced, and its pending tasks are only added to, never popped.
C2_LockExclusivity ==
  [][\A i \in Slots :
       (/\ local_query_subtree_locks_[i]
        /\ ~ (Calls("UnlockQuerySubtree") /\ last_call'.index = i))
       => /\ local_query_subtree_locks_'[i]
          /\ local_query_subtrees_'[i] = local_query_subtrees_[i]
          /\ IsPrefix(tasks_[i], tasks_'[i])
          /\ ~ Dequeues(i)]_vars

\* A DequeueTask has just come back empty from a held slot with tasks pending.
C2_Witness ==
  /\ last_call.op = "DequeueTask"
  /\ task_out = NoTask
  /\ local_query_subtree_locks_[last_call.index]
  /\ Len(tasks_[last_call.index]) > 0

\* C3: with one LockCache(c, 1) by the driver before each PushTask and one
\* release per finished task, the count of every cache slot c is at least
\* the pending tasks on c plus the dequeued tasks on c not yet released.
C3_CacheLowerBound ==
  \A c \in CacheIds : cache_refcount[c] >= PendingOn(c) + outstanding[c]

\* A split has happened while a dequeued task of the same cache slot is
\* still unreleased.
C3_Witness ==
  /\ SplitDone
  /\ \E c \in CacheIds : outstanding[c] > 0 /\ PendingOn(c) >= 4

\* C4: a DequeueTask that writes a task writes one that was pending in the
\* slot and whose priority is the greatest among the tasks pending there;
\* every task it leaves pending in the slot has at most that priority.
C4_PriorityOrder ==
  [][\A i \in Slots :
       Dequeues(i)
       => /\ \E k \in 1 .. Len(tasks_[i]) : tasks_[i][k] = task_out'[1]
          /\ \A j \in 1 .. Len(tasks_[i]) :
               tasks_[i][j].priority <= task_out'[1].priority
          /\ \A j \in 1 .. Len(tasks_'[i]) :
               tasks_'[i][j].priority <= task_out'[1].priority]_vars

\* A task was dequeued ahead of a pending task of strictly lower priority.
C4_Witness ==
  /\ Dequeued
  /\ \E j \in 1 .. Len(tasks_[last_call.index]) :
       tasks_[last_call.index][j].priority < task_out[1].priority

\* C5: among pending tasks of equal priority DequeueTask takes the one
\* pushed into the slot first: no task of the written task's priority was
\* pushed before it and is still pending.
C5_StableTies ==
  [][\A i \in Slots :
       Dequeues(i)
       => \E k \in 1 .. Len(tasks_[i]) :
            /\ tasks_[i][k] = task_out'[1]
            /\ \A j \in 1 .. (k - 1) :
                 tasks_[i][j].priority # task_out'[1].priority
            /\ tasks_'[i] = Without(tasks_[i], k)]_vars

\* A task was dequeued while a different task of the same priority, pushed
\* after it, stays pending.
C5_Witness ==
  /\ Dequeued
  /\ \E j \in 1 .. Len(tasks_[last_call.index]) :
       /\ tasks_[last_call.index][j].priority = task_out[1].priority
       /\ tasks_[last_call.index][j] # task_out[1]

C7_DequeueEffect ==
  [][(/\ Calls("DequeueTask")
      /\ Len(tasks_[last_call'.index]) > 0
      /\ ~ local_query_subtree_locks_[last_call'.index])
     => LET i == last_call'.index
        IN  /\ task_out' # NoTask
            /\ task_out'[2] = i
            /\ \E k \in 1 .. Len(tasks_[i]) :
                 /\ tasks_[i][k] = task_out'[1]
                 /\ tasks_' = [tasks_ EXCEPT ![i] = Without(@, k)]
            /\ local_query_subtree_locks_' =
                 [local_query_subtree_locks_ EXCEPT ![i] = last_call'.lock]
            /\ num_remaining_tasks_' = num_remaining_tasks_ - 1
            /\ UNCHANGED << local_query_subtrees_, table_exchange_,
                            split_subtree_after_unlocking_, cache_refcount >>]_vars

\* A locking DequeueTask has taken a task and holds the slot, with tasks
\* left behind.
C7_Witness ==
  /\ Dequeued
  /\ last_call.lock
  /\ task_out[2] = last_call.index
  /\ local_query_subtree_locks_[last_call.index]
  /\ Len(tasks_[last_call.index]) > 0

\* Slot k can be split by UnlockQuerySubtree(i): free once i is unlocked,
\* not a leaf, with tasks pending.
EligibleAfterUnlock(k, i) ==
  /\ k = i \/ ~ local_query_subtree_locks_[k]
  /\ ~ QueryIsLeaf(local_query_subtrees_[k])
  /\ Len(tasks_[k]) > 0

\* C8: after UnlockQuerySubtree(i) slot i is free and the split flag is
\* clear; when the flag was set and no slot could be split, the registry and
\* every task queue are as before.
C8_UnlockClearsLatch ==
  [][Calls("UnlockQuerySubtree")
     => LET i == last_call'.index
        IN  /\ ~ local_query_subtree_locks_'[i]
            /\ ~ split_subtree_after_unlocking_'
            /\ (/\ split_subtree_after_unlocking_
                /\ ~ \E k \in Slots : EligibleAfterUnlock(k, i))
               => UNCHANGED << local_query_subtrees_, tasks_,
                               num_remaining_tasks_, cache_refcount >>]_vars

\* UnlockQuerySubtree found the flag set with tasks pending but every slot
\* a leaf, and split nothing.
C8_Witness ==
  /\ last_call.op = "UnlockQuerySubtree"
  /\ last_call.requested
  /\ last_call.split_index < 0
  /\ num_remaining_tasks_ > 0
  /\ \A k \in Slots : QueryIsLeaf(local_query_subtrees_[k])

\* C9: set_split_subtree_flag sets the flag and changes nothing else,
\* also when the flag is already set; the registry grows only in an
\* UnlockQuerySubtree that found the flag set, and then by one slot.
C9_SplitLatch ==
  [][Initialized
     => /\ Calls("set_split_subtree_flag")
           => /\ split_subtree_after_unlocking_'
              /\ UNCHANGED << local_query_subtrees_, local_query_subtree_locks_,
                              tasks_, table_exchange_, num_remaining_tasks_,
                              cache_refcount >>
        /\ Size(local_query_subtrees_') # Size(local_query_subtrees_)
           => /\ Calls("UnlockQuerySubtree")
              /\ split_subtree_after_unlocking_
              /\ Size(local_query_subtrees_') = Size(local_query_subtrees_) + 1]_vars

\* set_split_subtree_flag was called with the flag already set and tasks
\* pending.
C9_Witness ==
  /\ last_call.op = "set_split_subtree_flag"
  /\ last_call.requested
  /\ split_subtree_after_unlocking_
  /\ num_remaining_tasks_ > 0

\* C10: after Init the registry never shrinks and every valid slot index
\* stays valid in all three arrays; when it grows, one slot k now holds its
\* left child and the right child is the new last slot, whose index is the
\* size before the split.
C10_MonotoneRegistry ==
  [][Initialized
     => /\ Slots \subseteq DOMAIN local_query_subtrees_'
        /\ Slots \subseteq DOMAIN local_query_subtree_locks_'
        /\ Slots \subseteq DOMAIN tasks_'
        /\ local_query_subtrees_' # local_query_subtrees_
           => \E k \in Slots :
                /\ k = last_call'.split_index
                /\ DOMAIN local_query_subtrees_' =
                     0 .. Size(local_query_subtrees_)
                /\ local_query_subtrees_'[Size(local_query_subtrees_)] =
                     Right(local_query_subtrees_[k])
                /\ local_query_subtrees_'[k] = Left(local_query_subtrees_[k])
                /\ \A j \in Slots \ {k} :
                     local_query_subtrees_'[j] = local_query_subtrees_[j]]_vars

\* A split of slot 0 has just grown the registry from two slots to three:
\* the new slot 2 holds the right child of the node slot 0 held.
C10_Witness ==
  /\ SplitDone
  /\ last_call.split_index = 0
  /\ Size(local_query_subtrees_) = 3
  /\ local_query_subtrees_[0] = Left(2)
  /\ local_query_subtrees_[2] = Right(2)

\* C11: from Init on, whatever calls follow, the three registry arrays
\* local_query_subtrees_, local_query_subtree_locks_ and tasks_ have the
\* same index set, hence the same length.
C11_ArrayAlignment ==
  Initialized
  => /\ DOMAIN local_query_subtree_locks_ = DOMAIN local_query_subtrees_
     /\ DOMAIN tasks_ = DOMAIN local_query_subtrees_
     /\ Size(local_query_subtree_locks_) = Size(local_query_subtrees_)
     /\ Size(tasks_) = Size(local_query_subtrees_)

\* A split has just grown the three arrays to three slots.
C11_Witness ==
  /\ SplitDone
  /\ Size(local_query_subtrees_) = 3
  /\ Size(tasks_) = 3
  /\ local_query_subtrees_[1] = 3

\* C12: once the driver has made its last PushTask, workers that keep taking
\* tasks from slots that have some and handing the slots back bring
\* num_remaining_tasks_ to 0, so that is_empty() holds; and a DequeueTask
\* called while is_empty() holds writes no task, on any slot.
C12_Termination ==
  /\ (pushes = MaxPush /\ num_remaining_tasks_ > 0) ~> is_empty(Self)
  /\ [][(is_empty(Self) /\ Calls("DequeueTask")) => task_out' = NoTask]_vars

\* After the last PushTask and a split, the last pending task has just been
\* dequeued and is_empty() holds.
C12_Witness ==
  /\ Dequeued
  /\ pushes = MaxPush
  /\ Size(local_query_subtrees_) >= 3
  /\ is_empty(Self)

\* C13: PushTask(i, binding) goes through whether slot i is free or held:
\* it adds exactly one task to tasks_[i], increments num_remaining_tasks_
\* by one, and leaves every lock bit, the split flag, the registry and the
\* other slots' queues as they were.  It makes no LockCache call, and the
\* only cache count that moves in the step is the reference the driver took
\* on the pushed binding before the call.
C13_PushIgnoresLocks ==
  [][Calls("PushTask")
     => LET i == last_call'.index
        IN  /\ Len(tasks_'[i]) = Len(tasks_[i]) + 1
            /\ IsPrefix(tasks_[i], tasks_'[i])
            /\ tasks_' = [tasks_ EXCEPT ![i] = tasks_'[i]]
            /\ num_remaining_tasks_' = num_remaining_tasks_ + 1
            /\ last_call'.lock_cache_calls = << >>
            /\ cache_refcount' =
                 [cache_refcount EXCEPT
                    ![tasks_'[i][Len(tasks_'[i])].cache_id] = @ + 1]
            /\ UNCHANGED << local_query_subtrees_, local_query_subtree_locks_,
                            split_subtree_after_unlocking_, table_exchange_ >>]_vars

\* PushTask has just been called on a held slot, which holds the new task
\* and is still held.
C13_Witness ==
  /\ last_call.op = "PushTask"
  /\ local_query_subtree_locks_[last_call.index]
  /\ Len(tasks_[last_call.index]) >= 1
  /\ num_remaining_tasks_ >= 1

\* Node n lies in the subtree of node a.
RECURSIVE IsUnder(_, _)
IsUnder(n, a) == n = a \/ (n > a /\ IsUnder(n \div 2, a))

\* The registry v is a frontier of the query tree: every leaf of the tree
\* lies under exactly one slot.
IsFrontier(v) ==
  \A l \in {n \in QueryNodes : QueryIsLeaf(n)} :
    Cardinality({i \in DOMAIN v : IsUnder(l, v[i])}) = 1

UsageErrorStep ==
  \/ Calls("abort")
  \/ /\ last_call'.op \in {"PushTask", "DequeueTask", "UnlockQuerySubtree"}
     /\ last_call'.index \notin Slots
  \/ /\ Calls("UnlockQuerySubtree")
     /\ last_call'.index \in Slots
     /\ ~ local_query_subtree_locks_[last_call'.index]

\* C15: a call outside its precondition either kills the process or is
\* turned away with the queue untouched, and it never leaves the three
\* arrays of different lengths or num_remaining_tasks_ different from the
\* number of pending tasks.
C15_UsageErrorsHarmless ==
  [][UsageErrorStep
     => /\ Calls("abort") \/ UNCHANGED members
        /\ DOMAIN local_query_subtree_locks_' = DOMAIN local_query_subtrees_'
        /\ DOMAIN tasks_' = DOMAIN local_query_subtrees_'
        /\ num_remaining_tasks_' = TotalPending']_vars

\* The slots whose subtree the step replaces.
SplitSlots ==
  {k \in Slots : local_query_subtrees_'[k] # local_query_subtrees_[k]}

\* C16: whenever the registry grows, exactly one slot k has its subtree
\* replaced, in an UnlockQuerySubtree(i), and once slot i is unlocked that
\* slot k is free, its subtree is not a leaf and it has tasks pending;
\* so no leaf slot and no slot held by another worker is split.
C16_SplitEligibility ==
  [][(Initialized /\ Size(local_query_subtrees_') > Size(local_query_subtrees_))
     => /\ Calls("UnlockQuerySubtree")
        /\ Cardinality(SplitSlots) = 1
        /\ \A k \in SplitSlots :
             /\ k = last_call'.split_index
             /\ k = last_call'.index \/ ~ local_query_subtree_locks_[k]
             /\ ~ QueryIsLeaf(local_query_subtrees_[k])
             /\ Len(tasks_[k]) > 0]_vars

\* UnlockQuerySubtree(i) has just split slot i itself, while another slot
\* is held.
C16_Witness ==
  /\ SplitDone
  /\ last_call.split_index = last_call.index
  /\ \E j \in Slots \ {last_call.index} : local_query_subtree_locks_[j]

\* The slots UnlockQuerySubtree(i) can split.
EligibleSlots(i) == {k \in Slots : EligibleAfterUnlock(k, i)}

\* The slot of E with the greatest subtree count, the lowest index among
\* those of equal greatest count.
Largest(E) ==
  CHOOSE k \in E :
    \A j \in E :
      \/ QueryCount[local_query_subtrees_[j]] < QueryCount[local_query_subtrees_[k]]
      \/ /\ QueryCount[local_query_subtrees_[j]] = QueryCount[local_query_subtrees_[k]]
         /\ k <= j

\* C17: an UnlockQuerySubtree(i) that finds the split flag set and some
\* slot eligible splits exactly one slot: the eligible slot of greatest
\* subtree count, and of lowest index among those of equal greatest count.
C17_SplitTarget ==
  [][(/\ Calls("UnlockQuerySubtree")
      /\ split_subtree_after_unlocking_
      /\ EligibleSlots(last_call'.index) # {})
     => /\ SplitSlots = {Largest(EligibleSlots(last_call'.index))}
        /\ Size(local_query_subtrees_') = Size(local_query_subtrees_) + 1]_vars

\* On table 2 with the registry [4, 5, 3]: slot 0 was split although slot 2
\* has the greatest count (6 points) but is held, and slot 1, of the same
\* count as slot 0 was (4 points), is eligible too.
C17_Witness ==
  /\ SplitDone
  /\ local_query_table = 2
  /\ last_call.split_index = 0
  /\ local_query_subtrees_[0] = 8
  /\ local_query_subtrees_[1] = 5
  /\ local_query_subtrees_[2] = 3
  /\ ~ local_query_subtree_locks_[1]
  /\ Len(tasks_[1]) > 0
  /\ local_query_subtree_locks_[2]
  /\ Len(tasks_[2]) > 0

\* The step is a split: the registry of the initialized queue grows.
Splits ==
  Initialized /\ Size(local_query_subtrees_') > Size(local_query_subtrees_)

\* The task for query subtree query and reference binding (t, n, c), with
\* the priority of the pair: minus the midpoint of the squared distance
\* range of the two bounds.
TaskFor(query, t, n, c) ==
  [ query_start_node |-> query,
    reference_table |-> t,
    reference_start_node |-> n,
    cache_id |-> c,
    priority |-> 0 - Mid(RangeDistanceSq(QueryBound[query], RefBound[t][n])) ]

\* How many elements of the sequence s satisfy Test.
CountOf(s, Test(_)) == Cardinality({j \in 1 .. Len(s) : Test(s[j])})

\* The tasks of s whose reference node is a leaf, resp. internal.
LeafRefs(s) ==
  CountOf(s, LAMBDA x : RefIsLeaf(x.reference_table, x.reference_start_node))

InternalRefs(s) ==
  CountOf(s, LAMBDA x : ~ RefIsLeaf(x.reference_table, x.reference_start_node))

\* The sequence new holds, for query subtree query, exactly the tasks the
\* tasks of old turn into: (query, N) once for each task of old with a
\* leaf reference N, (query, N.left) and (query, N.right) once for each
\* with an internal reference N.
Redistributed(old, new, query) ==
  /\ Len(new) = LeafRefs(old) + 2 * InternalRefs(old)
  /\ \A t \in CacheIds, c \in CacheIds :
       \A n \in RefNodes[t] :
         CountOf(new, LAMBDA x : x = TaskFor(query, t, n, c)) =
           CountOf(old, LAMBDA x :
                     /\ x.reference_table = t
                     /\ x.cache_id = c
                     /\ \/ /\ RefIsLeaf(t, x.reference_start_node)
                           /\ x.reference_start_node = n
                        \/ /\ ~ RefIsLeaf(t, x.reference_start_node)
                           /\ n \in {Left(x.reference_start_node),
                                      Right(x.reference_start_node)})

\* C18: a split of slot k whose queue held a tasks with leaf reference
\* nodes and b with internal ones leaves slot k, now the left child L, and
\* the new last slot, the right child R, with a + 2b tasks each: (L, N)
\* resp. (R, N) for each leaf reference N, the two pairs with N.left and
\* N.right for each internal reference N; and num_remaining_tasks_ grows
\* by a + 3b.
C18_SplitRedistribution ==
  [][Splits
     => \A k \in SplitSlots :
          LET new_index == Size(local_query_subtrees_)
              old == tasks_[k]
          IN  /\ local_query_subtrees_'[k] = Left(local_query_subtrees_[k])
              /\ local_query_subtrees_'[new_index] =
                   Right(local_query_subtrees_[k])
              /\ Redistributed(old, tasks_'[k], Left(local_query_subtrees_[k]))
              /\ Redistributed(old, tasks_'[new_index],
                               Right(local_query_subtrees_[k]))
              /\ num_remaining_tasks_' =
                   num_remaining_tasks_ + LeafRefs(old) + 3 * InternalRefs(old)]_vars

\* A split has just redistributed one task with a leaf reference and one
\* with an internal reference: three tasks in either child slot, and no
\* other task pending.
C18_Witness ==
  /\ SplitDone
  /\ Len(tasks_[last_call.split_index]) = 3
  /\ Len(tasks_[Size(local_query_subtrees_) - 1]) = 3
  /\ num_remaining_tasks_ = 6

\* C19: in a split of slot k the queue calls LockCache once per task
\* drained from slot k: LockCache(c, 1) for a task of cache id c with a leaf
\* reference node, LockCache(c, 3) for one with an internal reference node;
\* so the count of every cache id grows by as much as the pending tasks
\* that refer to it.  Init, PushTask, DequeueTask, set_split_subtree_flag
\* and an UnlockQuerySubtree that splits nothing call LockCache never.
C19_SplitCacheLocking ==
  [][/\ Splits
        => \A k \in SplitSlots :
             /\ Len(last_call'.lock_cache_calls) = Len(tasks_[k])
             /\ \A c \in CacheIds :
                  /\ CountOf(last_call'.lock_cache_calls,
                             LAMBDA x : x = <<c, 1>>) =
                       CountOf(tasks_[k], LAMBDA x :
                                 /\ x.cache_id = c
                                 /\ RefIsLeaf(x.reference_table,
                                              x.reference_start_node))
                  /\ CountOf(last_call'.lock_cache_calls,
                             LAMBDA x : x = <<c, 3>>) =
                       CountOf(tasks_[k], LAMBDA x :
                                 /\ x.cache_id = c
                                 /\ ~ RefIsLeaf(x.reference_table,
                                                x.reference_start_node))
                  /\ cache_refcount'[c] - cache_refcount[c] =
                       PendingOn(c)' - PendingOn(c)
     /\ ~ Splits
        => /\ last_call'.lock_cache_calls = << >>
           /\ last_call'.op \in {"Init", "DequeueTask", "set_split_subtree_flag",
                                  "UnlockQuerySubtree"}
              => UNCHANGED cache_refcount]_vars

\* A split has just made one LockCache(2, 1) and one LockCache(1, 3): it
\* drained a task with the leaf reference of cache slot 2 and one with the
\* internal reference of cache slot 1.
C19_Witness ==
  /\ SplitDone
  /\ Len(last_call.lock_cache_calls) = 2
  /\ \E j \in 1 .. 2 : last_call.lock_cache_calls[j] = <<2, 1>>
  /\ \E j \in 1 .. 2 : last_call.lock_cache_calls[j] = <<1, 3>>

\* Every task pending in slot i is the task of the subtree registered in
\* slot i and of its own reference binding, priority included.
TasksBoundToSlots ==
  \A i \in DOMAIN tasks_ :
    \A j \in 1 .. Len(tasks_[i]) :
      tasks_[i][j] = TaskFor(local_query_subtrees_[i],
                             tasks_[i][j].reference_table,
                             tasks_[i][j].reference_start_node,
                             tasks_[i][j].cache_id)

\* C20: in every reachable state each task pending in tasks_[i] carries the
\* subtree registered as local_query_subtrees_[i] and the priority computed
\* from that subtree's bound, also after a split has replaced the subtree;
\* a DequeueTask that takes the lock of slot i writes a task of the subtree
\* registered in slot i, and that subtree stays registered there for as
\* long as the slot stays held.
C20_TaskSlotBinding ==
  /\ []TasksBoundToSlots
  /\ [][\A i \in Slots :
          /\ Dequeues(i)
             => task_out'[1].query_start_node = local_query_subtrees_'[i]
          /\ (local_query_subtree_locks_[i] /\ local_query_subtree_locks_'[i])
             => local_query_subtrees_'[i] = local_query_subtrees_[i]]_vars

\* A split has just replaced the subtree of a slot that has tasks pending,
\* next to a slot that is held and has tasks pending.
C20_Witness ==
  /\ SplitDone
  /\ Len(tasks_[last_call.split_index]) > 0
  /\ \E j \in Slots :
       /\ local_query_subtree_locks_[j]
       /\ Len(tasks_[j]) > 0

\* The points under a query node, resp. a reference node: the even
\* coordinates within its bound (the children of a node share its points
\* out between them).
QueryPoints(n) == {p \in QueryBound[n][1] .. QueryBound[n][2] : p % 2 = 0}

RefPoints(t, n) == {p \in RefBound[t][n][1] .. RefBound[t][n][2] : p % 2 = 0}

\* All query points of the table in use, all points of reference table t.
AllQueryPoints == QueryPoints(1)

AllRefPoints(t) == RefPoints(t, 1)

\* The work pending in the task queues ts, as a multiset: how many pending
\* tasks cover each pair of a query point and a point of a reference table.
WorkPending(ts) ==
  [ pair \in UNION { { <<qp, t, rp>> : qp \in AllQueryPoints,
                                        rp \in AllRefPoints(t) } :
                     t \in CacheIds } |->
      Cardinality(
        { ij \in UNION { { <<i, j>> : j \in 1 .. Len(ts[i]) } :
                         i \in DOMAIN ts } :
            LET x == ts[ij[1]][ij[2]]
            IN  /\ pair[1] \in QueryPoints(x.query_start_node)
                /\ x.reference_table = pair[2]
                /\ pair[3] \in RefPoints(x.reference_table,
                                          x.reference_start_node) }) ]

\* C21: a split neither loses nor duplicates work: the multiset of (query
\* point, reference point) pairs covered by the pending tasks is the same
\* before and after the step; and every slot other than the split slot k
\* and the new last slot keeps its subtree and its task queue, and the lock
\* it had when the split began (that of the slot UnlockQuerySubtree has just
\* freed is free, the others are as before the call).
C21_SplitPreservesWork ==
  [][Splits
     => LET k == last_call'.split_index
            new_index == Size(local_query_subtrees_)
        IN  /\ k \in Slots
            /\ DOMAIN local_query_subtrees_' = 0 .. new_index
            /\ WorkPending(tasks_') = WorkPending(tasks_)
            /\ \A j \in Slots \ {k} :
                 /\ local_query_subtrees_'[j] = local_query_subtrees_[j]
                 /\ tasks_'[j] = tasks_[j]
                 /\ local_query_subtree_locks_'[j] =
                      IF j = last_call'.index
                      THEN FALSE
                      ELSE local_query_subtree_locks_[j]]_vars

\* The split of a second slot has just redistributed three tasks, and the
\* other slot of the registry before it is held, with tasks pending on it
\* that cover work as well.
C21_Witness ==
  /\ SplitDone
  /\ Size(local_query_subtrees_) = 3
  /\ Len(last_call.lock_cache_calls) = 3
  /\ \E j \in Slots \ {last_call.split_index, 2} :
       /\ local_query_subtree_locks_[j]
       /\ Len(tasks_[j]) = 2

====
